---- MODULE Spec2Model ----
(***************************************************************************)
(* A model of tncontract/one_dimension.py: chains of labelled tensors       *)
(* (OneDimensionalTensorNetwork, MatrixProductState), the SVD sweeps        *)
(* left_canonise / right_canonise, the canonical-form inspector, the        *)
(* compression functions and the contraction functions.                     *)
(*                                                                          *)
(* Tensors are Python objects: the model keeps them on a heap (a sequence   *)
(* of tensor values, a reference is an index into it), so that two names    *)
(* for one object see each other's in-place changes.  A tensor value is     *)
(*   dims : label -> dimension of the axis carrying that label              *)
(*   iso  : the labels a such that contracting the tensor with its complex  *)
(*          conjugate over every other axis gives the identity on axis a    *)
(*   data : what the entries are (a tag: raw, U, absorbed, scaled, ...)     *)
(* Indices i, start, end are the 0-based indices of the Python code.        *)
(***************************************************************************)
EXTENDS Integers, Sequences, FiniteSets, TLC

VARIABLES heap, tensors, mps, new_mps, res, call, ret, pre

vars == <<heap, tensors, mps, new_mps, res, call, ret, pre>>

\* Longest chain and largest bond dimension of the chains the client builds.
MaxN == 3
MaxBond == 2

\* Python's None.
None == "None"

\* Dimensions of the physical axis.
PhysDims == {1, 2}
\* Singular values an SVD may return (non-negative, descending).
SVals == {0, 1, 2}
\* Thresholds, in halves: 0 stands for the tiny default (10**-14), 1 for 0.5, 2 for 1.0.
ThrSet == {0, 1, 2}
ThrDen == Cardinality(ThrSet) - 1
\* Bond caps: 0 is "no cap"; a cap of MaxBond or more never cuts a bond of these
\* chains, as a cap of 1 never cuts a chain of bond dimension 1.
ChiSet == 0..(MaxBond - 1)

Range(s) == {s[j] : j \in DOMAIN s}
Min(a, b) == IF a <= b THEN a ELSE b
Max(a, b) == IF a >= b THEN a ELSE b

RECURSIVE ProdDims(_, _)
ProdDims(d, S) ==
    IF S = {} THEN 1
    ELSE LET a == CHOOSE x \in S : TRUE
         IN d[a] * ProdDims(d, S \ {a})

(***************************************************************************)
(* The tensor primitive (tncontract.tensor).                                *)
(***************************************************************************)
\* scale is the number the entries have been multiplied by (data*c, data*=c)
\* since the tensor was made.
Tensor(dims, iso, data) == [dims |-> dims, iso |-> iso, data |-> data, scale |-> 1]

labels(t) == DOMAIN t.dims

\* An axis of dimension 0 is trivially isometric (the 0 x 0 identity).
MustIso(d) == {a \in DOMAIN d : d[a] = 0}
\* A tensor can be isometric onto axis a only if the other axes span at least d[a].
MayIso(d) == {a \in DOMAIN d : d[a] <= ProdDims(d, DOMAIN d \ {a})}

\* old_labels.index(label): the first position of l in old.
IndexOf(old, l) == CHOOSE j \in DOMAIN old : old[j] = l /\ \A m \in DOMAIN old : old[m] = l => j <= m

MapLabel(l, old, new) == IF \E j \in DOMAIN old : old[j] = l THEN new[IndexOf(old, l)] ELSE l

\* Tensor.replace_label(old_labels, new_labels): every label found in old is
\* replaced by its partner in new, all at once.
replace_label(t, old, new) ==
    LET dom == {MapLabel(l, old, new) : l \in labels(t)}
    IN [dims |-> [l2 \in dom |-> t.dims[CHOOSE l \in labels(t) : MapLabel(l, old, new) = l2]],
        iso |-> {MapLabel(l, old, new) : l \in t.iso},
        data |-> t.data,
        scale |-> t.scale]

\* Tensor.add_dummy_index(label): a new axis of dimension 1.
add_dummy_index(t, label) ==
    [t EXCEPT !.dims = [l \in (DOMAIN t.dims) \cup {label} |->
                           IF l \in DOMAIN t.dims THEN t.dims[l] ELSE 1]]

\* Tensor.conjugate(): complex conjugate of every entry.
conjugate(t) == [t EXCEPT !.data = IF t.data = "conj" THEN "raw" ELSE IF t.data = "raw" THEN "conj" ELSE t.data]

\* contract(A, B, la, lb) is defined when the labels exist and the contracted
\* dimensions agree.  Axes of the result that share a label are kept as one
\* entry of dims, with the product of their dimensions.
CanContract(A, B, la, lb) ==
    /\ Len(la) = Len(lb)
    /\ \A j \in DOMAIN la : /\ la[j] \in labels(A)
                            /\ lb[j] \in labels(B)
                            /\ A.dims[la[j]] = B.dims[lb[j]]

contract(A, B, la, lb) ==
    LET ra == labels(A) \ Range(la)
        rb == labels(B) \ Range(lb)
        d == [l \in ra \cup rb |-> (IF l \in ra THEN A.dims[l] ELSE 1)
                                     * (IF l \in rb THEN B.dims[l] ELSE 1)]
    IN [Tensor(d, MustIso(d), "contracted") EXCEPT !.scale = A.scale * B.scale]

\* Tensor.contract_internal(label1, label2): the trace over the two axes, in place.
contract_internal(t, l1, l2) ==
    LET d == [l \in labels(t) \ {l1, l2} |-> t.dims[l]]
    IN [Tensor(d, MustIso(d), "contracted") EXCEPT !.scale = t.scale]

\* The number of singular values of the matrix (rows x cols) of t.
Rank(t, rows) == Min(ProdDims(t.dims, rows), ProdDims(t.dims, labels(t) \ rows))

Descending(s) == \A j \in 1..(Len(s) - 1) : s[j] >= s[j + 1]

\* The spectra tensor_svd may find: any descending one, and all ones when the
\* tensor is an isometry onto its column axis.
Spectra(t, rows) ==
    LET r == Rank(t, rows)
    IN IF r > 0 /\ (labels(t) \ rows) \subseteq t.iso /\ Cardinality(labels(t) \ rows) = 1
       THEN {[j \in 1..r |-> 1]}
       ELSE {s \in [1..r -> SVals] : Descending(s)}

\* tensor_svd(t, row_labels) -> U, S, V with the new bond labelled svd_in on U,
\* (svd_out, svd_in) on S and svd_out on V.  U is an isometry onto svd_in.
tensor_svd(t, rows, sv) ==
    LET r == Len(sv)
        cols == labels(t) \ rows
        ud == [l \in rows \cup {"svd_in"} |-> IF l = "svd_in" THEN r ELSE t.dims[l]]
        vd == [l \in cols \cup {"svd_out"} |-> IF l = "svd_out" THEN r ELSE t.dims[l]]
    IN [U |-> Tensor(ud, {"svd_in"} \cup MustIso(ud), "U"),
        S |-> Tensor([l \in {"svd_out", "svd_in"} |-> r], {}, "S"),
        V |-> Tensor(vd, {"svd_out"} \cup MustIso(vd), "V"),
        sv |-> sv]

\* data[..., 0:k] on the axis labelled a.
SliceAxis(t, a, k) ==
    LET d == [t.dims EXCEPT ![a] = Min(t.dims[a], Max(k, 0))]
    IN [t EXCEPT !.dims = d, !.iso = (t.iso \cap {a}) \cup MustIso(d)]

\* data * c for a number c.
Scaled(t, c) ==
    IF c = 1 THEN t
    ELSE [t EXCEPT !.data = "scaled", !.iso = MustIso(t.dims), !.scale = @ * c]

\* data / np.linalg.norm(data): the entries now have Euclidean norm 1, so the
\* tensor is isometric onto each of its axes of dimension 1.
Normalised(t) ==
    [t EXCEPT !.data = "normalised",
              !.iso = {a \in MayIso(t.dims) : t.dims[a] <= 1},
              !.scale = 1]

(***************************************************************************)
(* Chains on the heap.                                                      *)
(***************************************************************************)
Chain(data, l, r, p) == [data |-> data, left_label |-> l, right_label |-> r, phys_label |-> p]

NoChain == Chain(<<>>, None, None, None)

\* self[i]
site(ch, i) == ch.data[i + 1]

\* A chain by value: the tensors it holds and its three role labels.
ChainVal(h, ch) ==
    [data |-> [j \in DOMAIN ch.data |-> h[ch.data[j]]],
     left_label |-> ch.left_label, right_label |-> ch.right_label,
     phys_label |-> ch.phys_label]

\* list(tensors) in place of the copies: the same objects.
CopyTensors_shared(h, refs) == [heap |-> h, data |-> refs]

\* [x.copy() for x in tensors]: new objects with the same contents.
CopyTensors(h, refs) ==
    [heap |-> h \o [j \in 1..Len(refs) |-> h[refs[j]]],
     data |-> [j \in 1..Len(refs) |-> Len(h) + j]]

\* The loop of __init__: every tensor gets the role axes it lacks.
AddDummies(t, l, r) ==
    LET t1 == IF l \notin labels(t) THEN add_dummy_index(t, l) ELSE t
    IN IF r \notin labels(t1) THEN add_dummy_index(t1, r) ELSE t1

\* OneDimensionalTensorNetwork.__init__(tensors, left_label, right_label)
OneDimensionalTensorNetwork(h, ts, l, r) ==
    LET c == CopyTensors(h, ts)
    IN [heap |-> [k \in DOMAIN c.heap |->
                     IF k \in Range(c.data) THEN AddDummies(c.heap[k], l, r) ELSE c.heap[k]],
        chain |-> Chain(c.data, l, r, None)]

\* MatrixProductState.__init__(tensors, left_label, right_label, phys_label)
MatrixProductState(h, ts, l, r, p) ==
    LET o == OneDimensionalTensorNetwork(h, ts, l, r)
    IN [heap |-> o.heap, chain |-> [o.chain EXCEPT !.phys_label = p]]

\* MatrixProductState.copy()
copy(h, self) ==
    LET c == CopyTensors(h, self.data)
    IN MatrixProductState(c.heap, c.data, self.left_label, self.right_label, self.phys_label)

\* OneDimensionalTensorNetwork.reverse()
reverse(self) ==
    [self EXCEPT !.data = [j \in DOMAIN self.data |-> self.data[Len(self.data) + 1 - j]],
                 !.left_label = self.right_label,
                 !.right_label = self.left_label]

\* reverse_mps(mps)
reverse_mps(h, m) ==
    LET c == CopyTensors(h, [j \in DOMAIN m.data |-> m.data[Len(m.data) + 1 - j]])
    IN MatrixProductState(c.heap, c.data, m.right_label, m.left_label, m.phys_label)

(***************************************************************************)
(* The store: the heap and the names that hold references into it.  After   *)
(* every operation unreachable objects are dropped and the addresses are    *)
(* renumbered in the order the names reach them (addresses are not          *)
(* observable).                                                             *)
(***************************************************************************)
Store(h, ts, m, nm, r) == [heap |-> h, tensors |-> ts, mps |-> m, new_mps |-> nm, res |-> r]

Roots(st) == st.tensors \o st.mps.data \o st.new_mps.data \o (IF st.res = 0 THEN <<>> ELSE <<st.res>>)

\* The objects of s in the order s reaches them first.
RECURSIVE Reached(_, _)
Reached(s, acc) ==
    IF s = <<>> THEN acc
    ELSE Reached(Tail(s), IF Head(s) \in Range(acc) THEN acc ELSE Append(acc, Head(s)))

Collect(st) ==
    LET old == Reached(Roots(st), <<>>)
        na(x) == CHOOSE k \in DOMAIN old : old[k] = x
        mv(s) == [j \in DOMAIN s |-> na(s[j])]
    IN [heap |-> [k \in DOMAIN old |-> st.heap[old[k]]],
        tensors |-> mv(st.tensors),
        mps |-> [st.mps EXCEPT !.data = mv(st.mps.data)],
        new_mps |-> [st.new_mps EXCEPT !.data = mv(st.new_mps.data)],
        res |-> IF st.res = 0 THEN 0 ELSE na(st.res)]

Cur == Store(heap, tensors, mps, new_mps, res)

Becomes(st) ==
    \E c \in {Collect(st)} :
       /\ heap' = c.heap
       /\ tensors' = c.tensors
       /\ mps' = c.mps
       /\ new_mps' = c.new_mps
       /\ res' = c.res

\* What the caller can see of the store: every tensor and chain by value.
View(st) ==
    [tensors |-> [j \in DOMAIN st.tensors |-> st.heap[st.tensors[j]]],
     mps |-> ChainVal(st.heap, st.mps),
     new_mps |-> ChainVal(st.heap, st.new_mps)]

(***************************************************************************)
(* check_canonical_form: the two scans.                                     *)
(***************************************************************************)
\* Lines 163-165: I=contract(self[i], mps_cc[i], [phys, left], [phys, left]) and
\* norm(I.data - identity) > threshold: site i is not an isometry onto its
\* right axis.
NotLeftCanonised(h, self, i) == self.right_label \notin h[site(self, i)].iso

\* Lines 170-173: the same over [phys, right], onto the left axis.
NotRightCanonised(h, self, i) == self.left_label \notin h[site(self, i)].iso

\* Lines 161-167: for i in range(len(self)-1), with its break.
RECURSIVE ScanLeft(_, _, _)
ScanLeft(h, self, i) ==
    IF i >= Len(self.data) - 1 THEN Len(self.data) - 1
    ELSE IF NotLeftCanonised(h, self, i) THEN i
    ELSE ScanLeft(h, self, i + 1)

\* The left scan started one site late.
first_site_not_left_canonised_late(h, self) == ScanLeft(h, self, 1)

first_site_not_left_canonised(h, self) == ScanLeft(h, self, 0)

\* Lines 168-175: for i in range(len(self)-1, 0, -1), with its break.
RECURSIVE ScanRight(_, _, _)
ScanRight(h, self, i) ==
    IF i <= 0 THEN 0
    ELSE IF NotRightCanonised(h, self, i) THEN i
    ELSE ScanRight(h, self, i - 1)

first_site_not_right_canonised(h, self) == ScanRight(h, self, Len(self.data) - 1)

(***************************************************************************)
(* Calls.  A sweep (left_canonise) is a loop over the sites: call holds the *)
(* running sweep (its arguments, the loop index i and the accumulated       *)
(* norm); ret holds the last finished call of the client; pre holds what    *)
(* the client saw when it made the call.                                    *)
(***************************************************************************)
Args(start, end, chi, threshold, normalise, partial_normalise) ==
    [start |-> start, end |-> end, chi |-> chi, threshold |-> threshold,
     normalise |-> normalise, partial_normalise |-> partial_normalise]

NoArgs == Args(0, 0, 0, 0, FALSE, FALSE)

Frame(op, stage, tgt, args, inner, N) ==
    [op |-> op, stage |-> stage, tgt |-> tgt, args |-> args,
     start |-> inner.start,
     end |-> IF inner.end = -1 THEN N ELSE inner.end,
     i |-> inner.start,
     chi |-> inner.chi, threshold |-> inner.threshold,
     normalise |-> inner.normalise, partial_normalise |-> inner.partial_normalise,
     norm |-> 1, singular_values |-> <<>>, kept |-> <<>>, written |-> {}]

NoCall == Frame("none", 0, "mps", NoArgs, NoArgs, 0)

Ret(op, status, args, value) == [op |-> op, status |-> status, args |-> args, value |-> value]

NoRet == Ret("none", "none", NoArgs, <<>>)

\* The slice seq[:chi-1].
SliceLen_short(n, chi) == Min(n, Max(chi - 1, 0))

\* seq[:chi] of Python, for a sequence of length n: the length of the slice.
SliceLen(n, chi) == IF chi >= 0 THEN Min(n, chi) ELSE Max(n + chi, 0)

\* The filter with >= in place of >.
AboveThreshold_nonstrict(sv, threshold) ==
    SelectSeq(sv, LAMBDA x : sv[1] > 0 /\ x * ThrDen >= threshold * sv[1])

\* singular_values[singular_values > threshold] after the division by the
\* largest value: sv[j]/sv[1] > threshold/ThrDen, and nan > threshold is False.
AboveThreshold(sv, threshold) ==
    SelectSeq(sv, LAMBDA x : sv[1] > 0 /\ x * ThrDen > threshold * sv[1])

\* Line 92 alone: the threshold filter without the slice [:chi].
singular_values_to_keep_nocap(sv, threshold, chi) == AboveThreshold(sv, threshold)

\* Lines 92-94: the singular values kept at a cut.
singular_values_to_keep(sv, threshold, chi) ==
    LET kept == AboveThreshold(sv, threshold)
    IN IF chi # 0 THEN SubSeq(kept, 1, SliceLen(Len(kept), chi)) ELSE kept

\* Lines 74-80: the chain's last site.
LastSite(st, c) ==
    LET self == st[c.tgt]
        x == site(self, c.i)
    IN [st EXCEPT !.heap[x] = IF c.normalise THEN Normalised(@) ELSE Scaled(@, c.norm)]

\* The iteration without line 101: the site keeps its tensor.
ReplaceSite_skip(st, c, U) == st

\* Line 101: self[i]=U
ReplaceSite(st, c, U) ==
    [st EXCEPT !.heap = Append(@, U), ![c.tgt].data[c.i + 1] = Len(st.heap) + 1]

\* The iteration without lines 102-104: the neighbour keeps its tensor.
Absorb_skip(st, c, S, V, lossless) == st

\* Lines 102-104: V and then S are contracted into the right neighbour.  When
\* the cut loses nothing (every singular value is 1 and all are kept) the
\* neighbour is only rotated on its left axis and stays as isometric as it was.
Absorb(st, c, S, V, lossless) ==
    LET self == st[c.tgt]
        nb == st.heap[site(self, c.i + 1)]
        t1 == contract(V, nb, <<self.right_label>>, <<self.left_label>>)
        t2 == contract(S, t1, <<"svd_in">>, <<"svd_out">>)
        t3 == replace_label(t2, <<"svd_out">>, <<self.left_label>>)
        t4 == IF lossless THEN [t3 EXCEPT !.iso = nb.iso, !.data = nb.data]
              ELSE [t3 EXCEPT !.data = "absorbed"]
    IN [st EXCEPT !.heap = Append(@, t4), ![c.tgt].data[c.i + 2] = Len(st.heap) + 1]

\* Line 112 without the conditions of lines 110-111.
Reabsorb_always(st, c, norm) ==
    [st EXCEPT !.heap[site(st[c.tgt], c.i + 1)] = Scaled(@, norm)]

\* Lines 110-112: the accumulated norm goes into the neighbour at the end of
\* a sweep that stops before the last site, unless partial_normalise.
Reabsorb(st, c, norm) ==
    LET self == st[c.tgt]
        x == site(self, c.i + 1)
    IN IF c.i = c.end - 1 /\ ~c.partial_normalise
       THEN [st EXCEPT !.heap[x] = Scaled(@, norm)]
       ELSE st

\* The indices that the iteration from store st to store s1 has written:
\* self[j] names another object (self[j]=...) or the object it names has
\* other contents (self[j].data=...).
Written(st, s1, tgt) ==
    {j \in 0..(Len(st[tgt].data) - 1) :
        \/ site(s1[tgt], j) # site(st[tgt], j)
        \/ s1.heap[site(st[tgt], j)] # st.heap[site(st[tgt], j)]}

\* tensor_svd and the contractions need the role labels on the tensors, one
\* singular value at least (singular_values[0]) and matching bond dimensions.
CanStep(st, c) ==
    LET self == st[c.tgt]
        x == st.heap[site(self, c.i)]
        nb == st.heap[site(self, c.i + 1)]
        rows == {self.phys_label, self.left_label}
    IN /\ rows \cup {self.right_label} = labels(x)
       /\ Cardinality(rows \cup {self.right_label}) = Cardinality({"p", "l", "r"})
       /\ Rank(x, rows) > 0
       /\ self.left_label \in labels(nb)
       /\ nb.dims[self.left_label] = x.dims[self.right_label]

\* The spectra the SVD of this iteration may return (none is taken at the
\* last site or when the iteration raises).
StepSpectra(st, c) ==
    LET self == st[c.tgt]
    IN IF c.i = Len(self.data) - 1 \/ ~CanStep(st, c) THEN {<<>>}
       ELSE Spectra(st.heap[site(self, c.i)], {self.phys_label, self.left_label})

\* Lines 82-112: one iteration of the loop at a site that has a right neighbour.
SvdStep(st, c, sv) ==
    LET self == st[c.tgt]
        x == st.heap[site(self, c.i)]
        usv == tensor_svd(x, {self.phys_label, self.left_label}, sv)
        largest_singular_value == sv[1]
        norm == c.norm * largest_singular_value
        k == Len(singular_values_to_keep(sv, c.threshold, c.chi))
        lossless == k = Len(sv) /\ k = x.dims[self.right_label] /\ \A j \in DOMAIN sv : sv[j] = 1
        S == SliceAxis(SliceAxis(usv.S, "svd_out", k), "svd_in", k)
        U0 == SliceAxis(usv.U, "svd_in", k)
        U1 == IF lossless THEN [U0 EXCEPT !.iso = (x.iso \ {self.right_label}) \cup {"svd_in"}, !.data = x.data,
                                   !.scale = x.scale]
              ELSE U0
        U == replace_label(U1, <<"svd_in">>, <<self.right_label>>)
        V == SliceAxis(usv.V, "svd_out", k)
        s1 == ReplaceSite(st, c, U)
        s2 == Absorb(s1, c, S, V, lossless)
        s3 == Reabsorb(s2, c, norm)
    IN [st |-> s3,
        c |-> [c EXCEPT !.norm = norm, !.i = c.i + 1, !.singular_values = sv,
                        !.kept = singular_values_to_keep(sv, c.threshold, c.chi),
                        !.written = @ \cup Written(st, s3, c.tgt)],
        status |-> "running"]

\* Lines 73-112: the body of the loop at index c.i.
LoopBody(st, c, sv) ==
    IF c.i = Len(st[c.tgt].data) - 1
    THEN [st |-> LastSite(st, c),
          c |-> [c EXCEPT !.written = @ \cup Written(st, LastSite(st, c), c.tgt)],
          status |-> "returned"]
    ELSE IF ~CanStep(st, c)
    THEN [st |-> st, c |-> c, status |-> "raised"]
    ELSE SvdStep(st, c, sv)

\* Lines 445-447: the sweeps of variational_compress_mps have put
\* updated_tensor at every site: labels ["right", "phys"] at site 0,
\* ["left", "phys"] at site n-1 and ["left", "right", "phys"] between.
updated_tensor(t, i, n) ==
    LET dom == IF i = 0 THEN {"right", "phys"}
               ELSE IF i = n - 1 THEN {"left", "phys"}
               ELSE {"left", "right", "phys"}
        d == [l \in dom |-> t.dims[l]]
    IN Tensor(d, MustIso(d), "solved")

\* Lines 336-445.  The literal labels left, right, phys must be the chain's;
\* a chain of one site has neither boundary (right_boundary is unbound), and
\* an empty bond leaves nothing to solve: these raise.
CanSolve(h, m) ==
    /\ Len(m.data) >= 2
    /\ <<m.left_label, m.right_label, m.phys_label>> = <<"left", "right", "phys">>
    /\ \A j \in DOMAIN m.data : \A l \in labels(h[m.data[j]]) : h[m.data[j]].dims[l] > 0

SolveSweeps(h, m) ==
    [k \in DOMAIN h |->
        IF k \in Range(m.data)
        THEN updated_tensor(h[k], (CHOOSE j \in DOMAIN m.data : m.data[j] = k) - 1, Len(m.data))
        ELSE h[k]]

\* The functions that work on a chain of their own and return it.
OnOwnChain == {"left_canonical_form_mps", "right_canonical_form_mps",
               "svd_compress_mps", "variational_compress_mps"}

\* The end of the call: a function that raises returns no chain.
Return(st, c, status) ==
    [st |-> IF status # "returned" /\ c.op \in OnOwnChain THEN [st EXCEPT !.new_mps = NoChain] ELSE st,
     call |-> NoCall,
     ret |-> Ret(c.op, status, c.args,
                 [i |-> c.i, norm |-> c.norm, singular_values |-> c.singular_values,
                  kept |-> c.kept, written |-> c.written])]

\* Line 271 (and 322 through it): return reverse_mps(mps)
ReturnReversed(st, c) ==
    LET r == reverse_mps(st.heap, st.new_mps)
    IN [st EXCEPT !.heap = r.heap, !.new_mps = r.chain]

\* Lines 321-322 and 269-270: the left-canonical chain is reversed and copied
\* and the second sweep, with the caller's chi, starts on it.
SecondPass(st, c) ==
    LET r == reverse_mps(st.heap, st.new_mps)
        m == copy(r.heap, r.chain)
        inner == Args(0, -1, c.args.chi, c.threshold, c.normalise, TRUE)
    IN [st |-> [st EXCEPT !.heap = m.heap, !.new_mps = m.chain],
        call |-> Frame(c.op, 2, "new_mps", c.args, inner, Len(m.chain.data)),
        ret |-> NoRet]

\* What runs after the sweep of frame c has ended with the given status
\* (returned, or raised by an exception that no caller catches).
Finish(st, c, status) ==
    IF status # "returned" THEN Return(st, c, status)
    ELSE IF c.op = "right_canonise" THEN Return([st EXCEPT !.mps = reverse(@)], c, status)
    ELSE IF c.op = "right_canonical_form_mps" THEN Return(ReturnReversed(st, c), c, status)
    ELSE IF c.op \in {"svd_compress_mps", "variational_compress_mps"} /\ c.stage = 1
    THEN SecondPass(st, c)
    ELSE IF c.op = "svd_compress_mps" THEN Return(ReturnReversed(st, c), c, status)
    ELSE IF c.op = "variational_compress_mps"
    THEN LET s1 == ReturnReversed(st, c)
         IN IF c.args.max_iter = 0 THEN Return(s1, c, status)
            ELSE IF ~CanSolve(s1.heap, s1.new_mps) THEN Return(s1, c, "raised")
            ELSE Return([s1 EXCEPT !.heap = SolveSweeps(s1.heap, s1.new_mps)], c, status)
    ELSE Return(st, c, status)

\* for i in range(start, end): the loop is entered, or is over at once.
Enter(st, c) ==
    IF c.i < c.end THEN [st |-> st, call |-> c, ret |-> NoRet]
    ELSE Finish(st, c, "returned")

\* The loop goes on, or the sweep is over.
AfterBody(b) ==
    IF b.status = "running" /\ b.c.i < b.c.end
    THEN [st |-> b.st, call |-> b.c, ret |-> NoRet]
    ELSE Finish(b.st, b.c, IF b.status = "running" THEN "returned" ELSE b.status)

\* A step of a running call.
Continue(out) ==
    \E o \in {out} :
        /\ Becomes(o.st)
        /\ call' = o.call
        /\ ret' = o.ret
        /\ UNCHANGED pre

\* A call of the client: pre keeps what the client saw when it made it.
Outcome(out) ==
    \E o \in {out} :
        /\ Becomes(o.st)
        /\ call' = o.call
        /\ ret' = o.ret
        /\ pre' = View(Cur)

Idle == call.op = "none" /\ ret.op = "none"

N0(ch) == Len(ch.data)

\* The intervals a client passes: 0 <= start <= end <= N, and the default end=-1.
Intervals(N) == {<<s, e>> : s \in 0..N, e \in 0..N} \cup {<<0, -1>>}

\* A sweep reads normalise only at the chain's last site and partial_normalise
\* only when it ends before it: the flag that is not read keeps its default.
ArgSet(N, partial_default) ==
    {a \in {Args(se[1], se[2], chi, th, nm, pn) :
                se \in {x \in Intervals(N) : x[2] = -1 \/ x[1] <= x[2]},
                chi \in ChiSet, th \in ThrSet, nm \in BOOLEAN, pn \in BOOLEAN} :
        IF a.end = -1 \/ a.end = N THEN a.partial_normalise = partial_default
        ELSE a.normalise = FALSE}

\* MatrixProductState.left_canonise(start, end, chi, threshold, normalise, partial_normalise)
left_canonise(a) ==
    /\ Idle
    /\ Outcome(Enter(Cur, Frame("left_canonise", 0, "mps", a, a, Len(mps.data))))

\* MatrixProductState.right_canonise(start, end, chi, threshold, normalise, partial_normalise)
right_canonise(a) ==
    /\ Idle
    /\ LET st == [Cur EXCEPT !.mps = reverse(@)]
           N == Len(mps.data)
           end == IF a.end = -1 THEN N ELSE a.end
           inner == Args(N - end, N - a.start, 0, a.threshold, a.normalise, a.partial_normalise)
       IN Outcome(Enter(st, Frame("right_canonise", 0, "mps", a, inner, N)))

\* The arguments of the functions that sweep a whole chain.
FormArgs == {[chi |-> chi, threshold |-> th, normalise |-> nm] :
                chi \in ChiSet, th \in ThrSet, nm \in BOOLEAN}

\* MatrixProductState.copy() called by the client: new_mps = mps.copy()
mps_copy ==
    /\ Idle
    /\ LET m == copy(heap, mps)
       IN Outcome([st |-> [Cur EXCEPT !.heap = m.heap, !.new_mps = m.chain],
                   call |-> NoCall, ret |-> Ret("copy", "returned", NoArgs, <<>>)])

\* OneDimensionalTensorNetwork.reverse() called by the client.
mps_reverse ==
    /\ Idle
    /\ Outcome([st |-> [Cur EXCEPT !.mps = reverse(@)],
                call |-> NoCall, ret |-> Ret("reverse", "returned", NoArgs, <<>>)])

\* left_canonical_form_mps(orig_mps, chi, threshold, normalise), lines 258-260.
left_canonical_form_mps(a) ==
    /\ Idle
    /\ LET m == copy(heap, mps)
           st == [Cur EXCEPT !.heap = m.heap, !.new_mps = m.chain]
           inner == Args(0, -1, a.chi, a.threshold, a.normalise, TRUE)
       IN Outcome(Enter(st, Frame("left_canonical_form_mps", 0, "new_mps", a, inner, N0(m.chain))))

\* right_canonical_form_mps(orig_mps, chi, threshold, normalise), lines 269-271.
right_canonical_form_mps(a) ==
    /\ Idle
    /\ LET r == reverse_mps(heap, mps)
           m == copy(r.heap, r.chain)
           st == [Cur EXCEPT !.heap = m.heap, !.new_mps = m.chain]
           inner == Args(0, -1, a.chi, a.threshold, a.normalise, TRUE)
       IN Outcome(Enter(st, Frame("right_canonical_form_mps", 0, "new_mps", a, inner, N0(m.chain))))

\* svd_compress_mps(orig_mps, chi, threshold, normalise), lines 321-322: the
\* first pass is left_canonical_form_mps without chi.
svd_compress_mps(a) ==
    /\ Idle
    /\ LET m == copy(heap, mps)
           st == [Cur EXCEPT !.heap = m.heap, !.new_mps = m.chain]
           inner == Args(0, -1, 0, a.threshold, a.normalise, TRUE)
       IN Outcome(Enter(st, Frame("svd_compress_mps", 1, "new_mps", a, inner, N0(m.chain))))

\* variational_compress_mps(mps, chi, max_iter), line 333: the guess is
\* svd_compress_mps(mps, chi, threshold=10**-15, normalise=False).
variational_compress_mps(chi, max_iter) ==
    /\ Idle
    /\ LET m == copy(heap, mps)
           st == [Cur EXCEPT !.heap = m.heap, !.new_mps = m.chain]
           a == [chi |-> chi, threshold |-> 0, normalise |-> FALSE, max_iter |-> max_iter]
           inner == Args(0, -1, 0, 0, FALSE, TRUE)
       IN Outcome(Enter(st, Frame("variational_compress_mps", 1, "new_mps", a, inner, N0(m.chain))))

\* Lines 499-506: contract_mps_mpo(mps, mpo) for an open operator chain mpo of
\* bond dimension E whose physin axis has dimension din and physout axis dout,
\* with the left and right labels of mps: per site the physical axis is
\* contracted, consolidate_indices merges the doubled left and right axes,
\* and the constructor builds the new chain.
mpo_contracted(t, j, n, E, dout) ==
    LET d == [l \in {"left", "right", "physout"} |->
                 IF l = "physout" THEN dout
                 ELSE IF l = "left" THEN t.dims["left"] * (IF j = 1 THEN 1 ELSE E)
                 ELSE t.dims["right"] * (IF j = n THEN 1 ELSE E)]
    IN Tensor(d, MustIso(d), "contracted")

contract_mps_mpo(E, din, dout) ==
    /\ Idle
    /\ IF \E j \in DOMAIN mps.data : heap[mps.data[j]].dims[mps.phys_label] # din
       THEN Outcome([st |-> Cur, call |-> NoCall,
                     ret |-> Ret("contract_mps_mpo", "raised", NoArgs, <<>>)])
       ELSE LET n == Len(mps.data)
                h1 == heap \o [j \in 1..n |-> mpo_contracted(heap[mps.data[j]], j, n, E, dout)]
                m == MatrixProductState(h1, [j \in 1..n |-> Len(heap) + j],
                                        mps.left_label, mps.right_label, "physout")
            IN Outcome([st |-> [Cur EXCEPT !.heap = m.heap, !.new_mps = m.chain],
                        call |-> NoCall,
                        ret |-> Ret("contract_mps_mpo", "returned", NoArgs, <<>>)])

\* Lines 134-145: replace_left_right_phys_labels on the chain st[tgt].  A
\* None in new_labels is replaced by the old label; the attributes get the
\* arguments as they were passed.
replace_left_right_phys_labels(st, tgt, new_left_label, new_right_label, new_phys_label) ==
    LET self == st[tgt]
        old_labels == <<self.left_label, self.right_label, self.phys_label>>
        args == <<new_left_label, new_right_label, new_phys_label>>
        new_labels == [i \in 1..3 |-> IF args[i] = None THEN old_labels[i] ELSE args[i]]
    IN [st EXCEPT !.heap = [k \in DOMAIN st.heap |->
                               IF k \in Range(self.data)
                               THEN replace_label(st.heap[k], old_labels, new_labels)
                               ELSE st.heap[k]],
                  ![tgt].left_label = new_left_label,
                  ![tgt].right_label = new_right_label,
                  ![tgt].phys_label = new_phys_label]

\* "left"+suffix, "right"+suffix, "phys"+suffix for the suffixes in use.
Suffixed(l, suffix) ==
    IF suffix = "" THEN l
    ELSE IF l = "left" THEN "left_cc" ELSE IF l = "right" THEN "right_cc" ELSE "phys_cc"

\* Lines 152-153: standard_labels(suffix)
standard_labels(st, tgt, suffix) ==
    replace_left_right_phys_labels(st, tgt, Suffixed("left", suffix),
                                   Suffixed("right", suffix), Suffixed("phys", suffix))

\* The labels a client uses, and the renamings it asks for: the caller keeps
\* the labels of one tensor distinct (section 7 of the specification).
LabelArgs == {<<nl, nr, np>> : nl \in {None, "left", "a"}, nr \in {None, "right", "b"},
                               np \in {None, "phys", "c"}}

\* The client calls mps.replace_left_right_phys_labels(...).
client_replace_labels(nl, nr, np) ==
    /\ Idle
    /\ Outcome([st |-> replace_left_right_phys_labels(Cur, "mps", nl, nr, np),
                call |-> NoCall,
                ret |-> Ret("replace_left_right_phys_labels", "returned",
                            [new_left_label |-> nl, new_right_label |-> nr, new_phys_label |-> np],
                            <<>>)])

\* The client calls mps.standard_labels(suffix).
client_standard_labels(suffix) ==
    /\ Idle
    /\ Outcome([st |-> standard_labels(Cur, "mps", suffix), call |-> NoCall,
                ret |-> Ret("standard_labels", "returned", [suffix |-> suffix], <<>>)])

\* Lines 452-455: mps_complex_conjugate(mps): a copy, conjugated in place.
mps_complex_conjugate(h, m) ==
    LET c == copy(h, m)
    IN [heap |-> [k \in DOMAIN c.heap |->
                     IF k \in Range(c.chain.data) THEN conjugate(c.heap[k]) ELSE c.heap[k]],
        chain |-> c.chain]

\* The bra of an inner product, after lines 464-473: n sites of physical
\* dimension d and bond dimension 1, with the labels left_cc, right_cc, phys_cc.
BraCC(n, d) ==
    [j \in 1..n |-> Tensor([l \in {"left_cc", "right_cc", "phys_cc"} |-> IF l = "phys_cc" THEN d ELSE 1],
                           {}, "conj")]

\* Lines 476-478: the loop from site i (1-based here) on; FALSE when a
\* contraction (or mps_bra_cc[i]) raises.
RECURSIVE BoundaryLoop(_, _, _, _, _)
BoundaryLoop(left_boundary, i, bra, h, ket) ==
    IF i > Len(ket.data) THEN TRUE
    ELSE /\ i <= Len(bra)
         /\ CanContract(left_boundary, bra[i], <<"right_cc">>, <<"left_cc">>)
         /\ LET t == contract(left_boundary, bra[i], <<"right_cc">>, <<"left_cc">>)
                x == h[ket.data[i]]
                la == <<ket.right_label, "phys_cc">>
                lb == <<ket.left_label, ket.phys_label>>
            IN /\ CanContract(t, x, la, lb)
               /\ BoundaryLoop(contract(t, x, la, lb), i + 1, bra, h, ket)

\* Lines 475-478: every contraction of inner_product_mps goes through.
Contractions(bra, h, ket) ==
    /\ CanContract(bra[1], h[ket.data[1]], <<"phys_cc">>, <<ket.phys_label>>)
    /\ BoundaryLoop(contract(bra[1], h[ket.data[1]], <<"phys_cc">>, <<ket.phys_label>>),
                    2, bra, h, ket)

\* Lines 461-488: inner_product_mps(mps_bra, mps_ket) with mps as the ket and
\* a bra of n sites of physical dimension d.
inner_product_mps(n, d) ==
    /\ Idle
    /\ LET mps_ket_old_labels == <<mps.left_label, mps.right_label, mps.phys_label>>
           s1 == standard_labels(Cur, "mps", "")
           s2 == replace_left_right_phys_labels(s1, "mps", mps_ket_old_labels[1],
                                                mps_ket_old_labels[2], mps_ket_old_labels[3])
           a == [bra_sites |-> n, bra_phys |-> d]
       IN IF Contractions(BraCC(n, d), s1.heap, s1.mps)
          THEN Outcome([st |-> s2, call |-> NoCall,
                        ret |-> Ret("inner_product_mps", "returned", a, <<>>)])
          ELSE Outcome([st |-> s1, call |-> NoCall,
                        ret |-> Ret("inner_product_mps", "raised", a, <<>>)])

\* Lines 243-245: C=array_1d[0], then C=contract(C, x, right, left) for the
\* other sites: C names the chain's first tensor, then a new one.
RECURSIVE ContractSites(_, _, _, _)
ContractSites(h, C, array_1d, j) ==
    IF j > Len(array_1d.data) THEN [heap |-> h, C |-> C]
    ELSE ContractSites(Append(h, contract(h[C], h[array_1d.data[j]],
                                          <<array_1d.right_label>>, <<array_1d.left_label>>)),
                       Len(h) + 1, array_1d, j + 1)

\* Lines 242-250: contract_virtual_indices(mps)
contract_virtual_indices ==
    /\ Idle
    /\ LET c == ContractSites(heap, mps.data[1], mps, 2)
           h == [c.heap EXCEPT ![c.C] = contract_internal(@, mps.right_label, mps.left_label)]
       IN IF \A j \in DOMAIN mps.data : {mps.left_label, mps.right_label} \subseteq labels(heap[mps.data[j]])
          THEN Outcome([st |-> [Cur EXCEPT !.heap = h, !.res = c.C], call |-> NoCall,
                        ret |-> Ret("contract_virtual_indices", "returned", NoArgs, <<>>)])
          ELSE Outcome([st |-> Cur, call |-> NoCall,
                        ret |-> Ret("contract_virtual_indices", "raised", NoArgs, <<>>)])

\* The client relabels, in place, one of the tensors it built the chain from.
mutate_original(j) ==
    /\ Idle
    /\ Outcome([st |-> [Cur EXCEPT !.heap[tensors[j]] = replace_label(@, <<"phys", "c">>, <<"q", "q">>)],
                call |-> NoCall,
                ret |-> Ret("mutate_original", "returned", [j |-> j], <<>>)])

\* After new_mps = mps.copy() the client relabels the copy.
copy_standard_labels(suffix) ==
    /\ call.op = "none" /\ ret.op = "copy"
    /\ Outcome([st |-> standard_labels(Cur, "new_mps", suffix), call |-> NoCall,
                ret |-> Ret("copy_standard_labels", "returned", [suffix |-> suffix], <<>>)])

\* After new_mps = mps.copy() the client sweeps the copy.
copy_left_canonise(a) ==
    /\ call.op = "none" /\ ret.op = "copy"
    /\ Outcome(Enter(Cur, Frame("copy_left_canonise", 0, "new_mps", a, a, Len(new_mps.data))))

\* abs(np.linalg.norm(data)-1) > threshold is False: the entries have norm 1.
UnitNorm(t) == t.data = "normalised" \/ \E a \in t.iso : t.dims[a] = 1

\* Lines 176-198: what check_canonical_form prints for the pair (L, R).
Report(h, self, L, R) ==
    LET n == Len(self.data)
    IN IF L = R
       THEN IF L = n - 1
            THEN IF ~UnitNorm(h[site(self, n - 1)])
                 THEN <<[msg |-> "MPS in left canonical form (unnormalised)", at |-> -1]>>
                 ELSE <<[msg |-> "MPS in left canonical form (normalised)", at |-> -1]>>
            ELSE IF L = 0
            THEN IF ~UnitNorm(h[site(self, 0)])
                 THEN <<[msg |-> "MPS in right canonical form (unnormalised)", at |-> -1]>>
                 ELSE <<[msg |-> "MPS in right canonical form (normalised)", at |-> -1]>>
            ELSE <<[msg |-> "MPS in mixed canonical form with orthogonality centre at site", at |-> R]>>
       ELSE <<IF L = 0 THEN [msg |-> "No tensors left canonised", at |-> -1]
              ELSE [msg |-> "Tensors left canonised up to site", at |-> L],
              IF R = n - 1 THEN [msg |-> "No tensors right canonised", at |-> -1]
              ELSE [msg |-> "Tensors right canonised up to site", at |-> R]>>

\* Lines 155-199 (method) and 273-317 (function): the conjugated copy is
\* built, the two scans run, the report is printed and (L, R) returned.
CheckCanonicalForm(op, print_output) ==
    LET cc == mps_complex_conjugate(heap, mps)
        L == first_site_not_left_canonised(cc.heap, mps)
        R == first_site_not_right_canonised(cc.heap, mps)
    IN [st |-> [Cur EXCEPT !.heap = cc.heap], call |-> NoCall,
        ret |-> Ret(op, "returned", [print_output |-> print_output],
                    [L |-> L, R |-> R,
                     printed |-> IF print_output THEN Report(cc.heap, mps, L, R) ELSE <<>>])]

\* mps.check_canonical_form(print_output=...), lines 155-199.
check_canonical_form(print_output) ==
    /\ Idle
    /\ Outcome(CheckCanonicalForm("check_canonical_form", print_output))

\* check_canonical_form_mps(mps, print_output=...), lines 273-317.
check_canonical_form_mps(print_output) ==
    /\ Idle
    /\ Outcome(CheckCanonicalForm("check_canonical_form_mps", print_output))

\* One iteration of the running sweep.
Step ==
    /\ call.op # "none"
    /\ \E sv \in StepSpectra(Cur, call) : Continue(AfterBody(LoopBody(Cur, call, sv)))

(***************************************************************************)
(* The client builds its tensors and a MatrixProductState from them.        *)
(***************************************************************************)
\* The dimensions of the tensor the client makes for site j (1-based) of an
\* open chain of n sites, bond dimension D, physical dimension d, with the
\* labels lbl = <<left, right, phys>>; the boundary tensors come without
\* their outer axis.
RawDims(j, n, D, d, lbl) ==
    LET dom == {lbl[3]} \cup (IF j = 1 THEN {} ELSE {lbl[1]})
                        \cup (IF j = n THEN {} ELSE {lbl[2]})
    IN [l \in dom |-> IF l = lbl[3] THEN d ELSE D]

\* Lines 50-52: mps = MatrixProductState(tensors, left, right, phys) for the
\* tensors h0 the client made.
Constructed(h0, lbl) ==
    LET ts == [j \in DOMAIN h0 |-> j]
        m == MatrixProductState(h0, ts, lbl[1], lbl[2], lbl[3])
        st == Collect(Store(m.heap, ts, m.chain, NoChain, 0))
    IN /\ heap = st.heap
       /\ tensors = st.tensors
       /\ mps = st.mps
       /\ new_mps = st.new_mps
       /\ res = st.res
       /\ call = NoCall
       /\ ret = NoRet
       /\ pre = View(st)

StdLabels == <<"left", "right", "phys">>

\* The entries of the client's tensors are generic, or special: isometric
\* onto every bond axis that the dimensions allow.
RawTensor(dm, lbl, special) ==
    Tensor(dm, IF special THEN MayIso(dm) \ {lbl[3]} ELSE MustIso(dm), "raw")

InitWith(Lbls) ==
    \E n \in 1..MaxN, D \in 1..MaxBond, d \in PhysDims, special \in BOOLEAN, lbl \in Lbls :
        Constructed([j \in 1..n |-> RawTensor(RawDims(j, n, D, d, lbl), lbl, special)], lbl)

Init == InitWith({StdLabels})

Next ==
    \/ \E a \in ArgSet(Len(mps.data), TRUE) : left_canonise(a)
    \/ \E a \in ArgSet(Len(mps.data), FALSE) : right_canonise(a)
    \/ Step

Spec == Init /\ [][Next]_vars

\* max_iter of variational_compress_mps: no sweep, or some.
MaxIterSet == {0, 1}

\* The canonical forms are asked for with the smallest threshold.
CanonicalFormArgs == {a \in FormArgs : a.threshold = 0}

NextCompress ==
    \/ mps_copy
    \/ mps_reverse
    \/ \E a \in CanonicalFormArgs : left_canonical_form_mps(a)
    \/ \E a \in CanonicalFormArgs : right_canonical_form_mps(a)
    \/ \E a \in FormArgs : svd_compress_mps(a)
    \/ \E chi \in ChiSet, max_iter \in MaxIterSet : variational_compress_mps(chi, max_iter)
    \/ \E E \in 1..MaxBond, din \in PhysDims, dout \in PhysDims : contract_mps_mpo(E, din, dout)
    \/ Step

SpecCompress == Init /\ [][NextCompress]_vars

\* The client's chains carry the standard labels or labels of its own.
InitClient == InitWith({StdLabels, <<"a", "b", "c">>})

\* The sweeps the client asks for here: whole chain, default threshold.
ClientArgs == {Args(0, -1, chi, 0, nm, TRUE) : chi \in ChiSet, nm \in BOOLEAN}

NextClient ==
    \/ \E x \in LabelArgs : client_replace_labels(x[1], x[2], x[3])
    \/ \E suffix \in {"", "_cc"} : client_standard_labels(suffix)
    \/ \E n \in 1..MaxN, d \in PhysDims : inner_product_mps(n, d)
    \/ contract_virtual_indices
    \/ \E j \in DOMAIN tensors : mutate_original(j)
    \/ mps_copy
    \/ \E suffix \in {"", "_cc"} : copy_standard_labels(suffix)
    \/ \E a \in ClientArgs : copy_left_canonise(a)
    \/ mps_reverse
    \/ \E a \in ClientArgs : left_canonise(a)
    \/ \E a \in ClientArgs : right_canonise(a)
    \/ Step

SpecClient == InitClient /\ [][NextClient]_vars

\* The chains the inspector is given: every site is isometric onto any of
\* its bond axes that the dimensions allow, or onto none.
InitCheck ==
    \E n \in 1..MaxN, D \in 1..MaxBond, d \in PhysDims :
        \E iso \in [1..n -> SUBSET {"left", "right"}] :
            /\ \A j \in 1..n : iso[j] \subseteq MayIso(RawDims(j, n, D, d, StdLabels))
            /\ Constructed([j \in 1..n |-> Tensor(RawDims(j, n, D, d, StdLabels), iso[j], "raw")],
                           StdLabels)

NextCheck ==
    \/ \E print_output \in BOOLEAN : check_canonical_form(print_output)
    \/ \E print_output \in BOOLEAN : check_canonical_form_mps(print_output)

SpecCheck == InitCheck /\ [][NextCheck]_vars

(***************************************************************************)
(* Claims.                                                                  *)
(***************************************************************************)
N == Len(mps.data)

Returned(op) == ret.op = op /\ ret.status = "returned"

\* The end of the interval of the finished call, with end=-1 resolved.
RetEnd == IF ret.args.end = -1 THEN N ELSE ret.args.end

\* C1, while the sweep runs: the sites already replaced by U are isometries
\* onto their right axis.
C1_SweptSoFar ==
    call.op = "left_canonise" =>
        \A i \in call.start..(call.i - 1) : ~NotLeftCanonised(heap, mps, i)

\* C1, when the call has returned: every site of [start, end) but the chain's
\* last is left-canonical, and after a full sweep the inspector's left scan
\* finds no site that is not.
C1_AfterReturn ==
    Returned("left_canonise") =>
        /\ \A i \in ret.args.start..(RetEnd - 1) :
               i # N - 1 => ~NotLeftCanonised(heap, mps, i)
        /\ (ret.args.start = 0 /\ RetEnd = N =>
               first_site_not_left_canonised(heap, mps) = N - 1)

\* C1, every step of the sweep: a site that has been replaced by U is the
\* same tensor after the step as before it.
C1_NotModifiedAgain ==
    call.op = "left_canonise" =>
        \A i \in call.start..(call.i - 1) :
            heap'[site(mps', i)] = heap[site(mps, i)]

\* C1: after left_canonise(start, end, ...) returns, every site i with
\* start <= i < end and i # N-1 is left-canonical (U of the SVD being an
\* isometry, also after the truncation of its bond axis); a full sweep makes
\* check_canonical_form return first_site_not_left_canonised = N-1; a site
\* replaced by U is not modified again by the rest of the sweep.
C1_LeftCanoniseMakesLeftCanonical ==
    /\ [](C1_SweptSoFar /\ C1_AfterReturn)
    /\ [][C1_NotModifiedAgain]_vars

\* C1 witness: a full sweep over three sites has returned and has cut the
\* first bond from 2 to 1.
C1_Witness ==
    /\ Returned("left_canonise")
    /\ N = 3 /\ ret.args.start = 0 /\ RetEnd = 3
    /\ pre.mps.data[1].dims["right"] = 2
    /\ heap[site(mps, 0)].dims["right"] = 1
    /\ heap[site(mps, 0)].data = "U"

\* C3, while the sweep of right_canonise runs: left_canonise got the mirrored
\* interval and the caller's chi, threshold, normalise and partial_normalise.
C3_SameArguments ==
    call.op = "right_canonise" =>
        LET end == IF call.args.end = -1 THEN N ELSE call.args.end
        IN /\ call.start = N - end
           /\ call.end = N - call.args.start
           /\ call.chi = call.args.chi
           /\ call.threshold = call.args.threshold
           /\ call.normalise = call.args.normalise
           /\ call.partial_normalise = call.args.partial_normalise

\* C3, when right_canonise has returned: the labels and the length are those
\* of before the call, and a cap chi > 0 bounds every bond the sweep cut (the
\* left axis of the sites start..end-1 other than site 0).
C3_AfterReturn ==
    Returned("right_canonise") =>
        /\ mps.left_label = pre.mps.left_label
        /\ mps.right_label = pre.mps.right_label
        /\ N = Len(pre.mps.data)
        /\ (ret.args.chi > 0 =>
               \A j \in ret.args.start..(RetEnd - 1) :
                   j >= 1 => heap[site(mps, j)].dims[mps.left_label] <= ret.args.chi)

\* C3: right_canonise(start, end, chi, threshold, normalise, partial_normalise)
\* is reverse, left_canonise on [N-end, N-start) with the same chi, threshold,
\* normalise and partial_normalise, reverse; so chi > 0 bounds every bond it
\* sweeps over, and order and labels are restored.
C3_RightCanoniseMirrorsLeft == C3_SameArguments /\ C3_AfterReturn

\* The bonds of chain m: the right axis of site i and the left axis of site
\* i+1 have the same dimension, at most chi.
BondsAtMost(h, m, chi) ==
    \A i \in 0..(Len(m.data) - 2) :
        /\ h[site(m, i)].dims[m.right_label] = h[site(m, i + 1)].dims[m.left_label]
        /\ h[site(m, i)].dims[m.right_label] <= chi

\* C2: the chain returned by svd_compress_mps(orig_mps, chi) with chi >= 1
\* has every bond dimension less than or equal to chi.
C2_SvdCompressBondsAtMostChi ==
    Returned("svd_compress_mps") /\ ret.args.chi >= 1 =>
        /\ Len(new_mps.data) = Len(pre.mps.data)
        /\ BondsAtMost(heap, new_mps, ret.args.chi)

\* C2 witness: a chain of three sites with bonds of dimension 2 has been
\* compressed to chi = 1.
C2_Witness ==
    /\ Returned("svd_compress_mps")
    /\ ret.args.chi = 1
    /\ Len(new_mps.data) = 3
    /\ pre.mps.data[1].dims["right"] = 2
    /\ heap[site(new_mps, 0)].dims[new_mps.right_label] = 1
    /\ heap[site(new_mps, 1)].dims[new_mps.right_label] = 1

\* The labels of a chain given by value: its three role labels and the axis
\* labels of every tensor.
LabelsOf(cv) ==
    [roles |-> <<cv.left_label, cv.right_label, cv.phys_label>>,
     axes |-> [j \in DOMAIN cv.data |-> labels(cv.data[j])]]

\* C4: after inner_product_mps(mps_bra, mps_ket), whether it returned or
\* failed at a contraction, the ket's left_label, right_label, phys_label and
\* the axis labels of every tensor of the ket are what they were before.
C4_InnerProductRestoresKetLabels ==
    ret.op = "inner_product_mps" =>
        LabelsOf(ChainVal(heap, mps)) = LabelsOf(pre.mps)

\* The label a role has after a rename: the argument, or the old label when
\* the argument is None.
Renamed(arg, old) == IF arg = None THEN old ELSE arg

\* C5: after replace_left_right_phys_labels(new_left_label, new_right_label,
\* new_phys_label) the attributes left_label, right_label, phys_label are the
\* labels the tensors carry for the three roles: a None argument keeps the old
\* label on the tensors and in the attribute, another argument is the new
\* label in both places.
C5_RoleAttributesMatchTensors ==
    Returned("replace_left_right_phys_labels") =>
        LET want == <<Renamed(ret.args.new_left_label, pre.mps.left_label),
                      Renamed(ret.args.new_right_label, pre.mps.right_label),
                      Renamed(ret.args.new_phys_label, pre.mps.phys_label)>>
        IN /\ <<mps.left_label, mps.right_label, mps.phys_label>> = want
           /\ \A j \in DOMAIN mps.data : labels(heap[mps.data[j]]) = Range(want)

\* C6: contract_virtual_indices(chain) returns a new tensor and leaves every
\* tensor of the chain as it was, for every length N >= 1; the tensor it
\* returns is not an element of the chain.
C6_ContractLeavesChainUnchanged ==
    Returned("contract_virtual_indices") =>
        /\ ChainVal(heap, mps) = pre.mps
        /\ res \notin Range(mps.data)

\* The operations that mutate the client's copy new_mps in place.
ThroughTheCopy == {"copy_standard_labels", "copy_left_canonise"}

\* C7: a chain built by the constructor or returned by copy() shares no
\* tensor with what it was built from: whatever is done through a chain
\* leaves the caller's original tensors unchanged, what is done through a
\* copy leaves the source chain unchanged, and mutating an original leaves
\* the chain unchanged.
C7_NoSharedStorage ==
    /\ Range(tensors) \cap Range(mps.data) = {}
    /\ Range(tensors) \cap Range(new_mps.data) = {}
    /\ Range(mps.data) \cap Range(new_mps.data) = {}
    /\ (ret.op # "mutate_original" => View(Cur).tensors = pre.tensors)
    /\ (ret.op = "mutate_original" => ChainVal(heap, mps) = pre.mps)
    /\ (call.op \in ThroughTheCopy \/ ret.op \in ThroughTheCopy =>
           ChainVal(heap, mps) = pre.mps)

\* C7 witness: the client has swept its copy of a chain of two sites or
\* more, the copy has changed, and the client's tensors and the source chain
\* are what they were.
C7_Witness ==
    /\ Returned("copy_left_canonise")
    /\ Len(new_mps.data) >= 2
    /\ ChainVal(heap, new_mps) # pre.new_mps
    /\ ChainVal(heap, mps) = pre.mps
    /\ View(Cur).tensors = pre.tensors

\* Every tensor of chain m has an axis with the chain's left label and one
\* with its right label.
BothRoleAxes(h, m) ==
    \A j \in DOMAIN m.data : {m.left_label, m.right_label} \subseteq labels(h[m.data[j]])

\* C8: in every chain produced by construction, copy, reverse, the sweeps,
\* the canonical forms, svd_compress_mps, variational_compress_mps and
\* contract_mps_mpo, every tensor, the first and the last included, carries
\* an axis with the chain's left label and one with its right label.
C8_EveryTensorHasBothRoleAxes ==
    /\ BothRoleAxes(heap, mps)
    /\ BothRoleAxes(heap, new_mps)

\* The calls of the inspector.
Inspected == ret.op \in {"check_canonical_form", "check_canonical_form_mps"}

\* The sites, among lo..hi, that are not left- (right-) canonical.
DeviatingLeft == {i \in 0..(N - 2) : NotLeftCanonised(heap, mps, i)}
DeviatingRight == {i \in 1..(N - 1) : NotRightCanonised(heap, mps, i)}

Smallest(S) == CHOOSE x \in S : \A y \in S : x <= y
Largest(S) == CHOOSE x \in S : \A y \in S : x >= y

\* C9: check_canonical_form and check_canonical_form_mps return (L, R): L the
\* smallest index in 0..N-2 whose site is not left-canonical, or N-1 if there
\* is none, R the largest index in 1..N-1 whose site is not right-canonical,
\* or 0 if there is none; the chain is not modified.
C9_InspectorReturnsFirstDeviations ==
    Inspected =>
        /\ ret.value.L = IF DeviatingLeft = {} THEN N - 1 ELSE Smallest(DeviatingLeft)
        /\ ret.value.R = IF DeviatingRight = {} THEN 0 ELSE Largest(DeviatingRight)
        /\ View(Cur) = pre

\* C9 witness: on three sites, two of which deviate from the left and two
\* from the right, the inspector has returned (0, 2).
C9_Witness ==
    /\ Inspected
    /\ N = 3
    /\ DeviatingLeft = {0, 1}
    /\ DeviatingRight = {1, 2}
    /\ ret.value.L = 0 /\ ret.value.R = 2

LeftForm == {"MPS in left canonical form (unnormalised)",
             "MPS in left canonical form (normalised)"}
RightForm == {"MPS in right canonical form (unnormalised)",
              "MPS in right canonical form (normalised)"}

\* The partial report with the indices L and R.
PartialReport(L, R) ==
    <<IF L = 0 THEN [msg |-> "No tensors left canonised", at |-> -1]
      ELSE [msg |-> "Tensors left canonised up to site", at |-> L],
      IF R = N - 1 THEN [msg |-> "No tensors right canonised", at |-> -1]
      ELSE [msg |-> "Tensors right canonised up to site", at |-> R]>>

\* C10: with print_output the inspector prints "left canonical form" whenever
\* L = N-1, "right canonical form" whenever R = 0, "mixed canonical form with
\* orthogonality centre at site R" when L = R and 0 < R < N-1, and otherwise
\* the partial report with the indices L and R.
C10_PrintedClassification ==
    Inspected /\ ret.args.print_output =>
        LET L == ret.value.L
            R == ret.value.R
            printed == ret.value.printed
        IN IF L = N - 1 THEN Len(printed) = 1 /\ printed[1].msg \in LeftForm
           ELSE IF R = 0 THEN Len(printed) = 1 /\ printed[1].msg \in RightForm
           ELSE IF L = R
           THEN printed = <<[msg |-> "MPS in mixed canonical form with orthogonality centre at site",
                             at |-> R]>>
           ELSE printed = PartialReport(L, R)

\* The locals of the sweep, running or just finished: the index after the
\* last cut, the spectrum found there and the values kept.
Cut ==
    IF call.op # "none"
    THEN [chain |-> Cur[call.tgt], i |-> call.i, singular_values |-> call.singular_values,
          kept |-> call.kept, chi |-> call.chi, threshold |-> call.threshold]
    ELSE [chain |-> mps, i |-> ret.value.i, singular_values |-> ret.value.singular_values,
          kept |-> ret.value.kept, chi |-> ret.args.chi, threshold |-> ret.args.threshold]

\* A cut has been made by the sweep that runs, or by the left_canonise that
\* has finished.
CutMade ==
    /\ call.op # "none" \/ ret.op = "left_canonise"
    /\ Cut.singular_values # <<>>

\* The number of singular values that, divided by the largest, are strictly
\* greater than threshold (none is when the largest is 0).
CountAbove(sv, threshold) ==
    Cardinality({j \in DOMAIN sv : sv[1] > 0 /\ sv[j] * ThrDen > threshold * sv[1]})

\* C11: at every cut of left_canonise the number of singular values kept is
\* the count of normalised values strictly above threshold when chi = 0 and
\* the minimum of that count and chi when chi > 0; the kept values are the
\* leading ones of the spectrum; the right axis of site i and the left axis
\* of site i+1 both have this dimension after the step.
C11_KeptCount ==
    CutMade =>
        LET c == Cut
            count == CountAbove(c.singular_values, c.threshold)
            k == IF c.chi = 0 THEN count ELSE Min(count, c.chi)
        IN /\ Len(c.kept) = k
           /\ c.kept = SubSeq(c.singular_values, 1, k)
           /\ heap[site(c.chain, c.i - 1)].dims[c.chain.right_label] = k
           /\ heap[site(c.chain, c.i)].dims[c.chain.left_label] = k

\* C11 witness: left_canonise has cut a spectrum of two values of which
\* threshold keeps both and chi = 1 keeps one.
C11_Witness ==
    /\ call.op = "left_canonise"
    /\ call.chi = 1
    /\ Len(call.singular_values) = 2
    /\ CountAbove(call.singular_values, call.threshold) = 2
    /\ Len(call.kept) = 1
    /\ heap[site(mps, call.i - 1)].dims[mps.right_label] = 1

\* The factor that left_canonise(start, end, ...) with normalise = False is to
\* multiply into site j, norm being the product of the largest singular
\* values of its cuts: norm at the chain's last site when the sweep reaches
\* it, norm at site end when the sweep ends before and partial_normalise is
\* False, and 1 everywhere else.
NormInto(j) ==
    IF ret.args.start >= RetEnd THEN 1
    ELSE IF RetEnd = N THEN (IF j = N - 1 THEN ret.value.norm ELSE 1)
    ELSE IF j = RetEnd /\ ~ret.args.partial_normalise THEN ret.value.norm
    ELSE 1

\* C12, when the call has returned: every site has been multiplied by
\* NormInto; with normalise the last site has been divided by its Euclidean
\* norm instead and carries no factor.
C12_AfterReturn ==
    Returned("left_canonise") =>
        \A j \in 0..(N - 1) :
            IF ret.args.normalise /\ j = N - 1 /\ RetEnd = N /\ ret.args.start < N
            THEN heap[site(mps, j)].data = "normalised" /\ heap[site(mps, j)].scale = 1
            ELSE heap[site(mps, j)].scale = pre.mps.data[j + 1].scale * NormInto(j)

\* C12, every cut: norm is multiplied by the largest singular value found.
C12_NormAccumulates ==
    call.op = "left_canonise" =>
        /\ (call'.op = "left_canonise" =>
               call'.norm = call.norm * call'.singular_values[1])
        /\ (Returned("left_canonise")' /\ ret'.value.i = call.i + 1 =>
               ret'.value.norm = call.norm * ret'.value.singular_values[1])
        /\ (Returned("left_canonise")' /\ ret'.value.i = call.i =>
               ret'.value.norm = call.norm)

C13_AtLeastOneKept ==
    CutMade /\ Cut.threshold < ThrDen /\ Cut.chi >= 0 /\ Cut.singular_values[1] > 0 =>
        /\ Len(Cut.kept) >= 1
        /\ Cut.kept[1] = Cut.singular_values[1]
        /\ heap[site(Cut.chain, Cut.i - 1)].dims[Cut.chain.right_label] >= 1
        /\ heap[site(Cut.chain, Cut.i)].dims[Cut.chain.left_label] >= 1

\* C13 witness: with a threshold between 0 and 1 and chi = 1, a cut of a
\* spectrum of two non-zero values has kept the leading one.
C13_Witness ==
    /\ CutMade
    /\ Cut.threshold > 0 /\ Cut.threshold < ThrDen
    /\ Cut.chi = 1
    /\ Len(Cut.singular_values) = 2 /\ Cut.singular_values[2] > 0
    /\ Len(Cut.kept) = 1
    /\ heap[site(Cut.chain, Cut.i)].dims[Cut.chain.left_label] = 1

\* The interval and the indices written of the left_canonise that runs or
\* has finished (returned or raised).
Sweep ==
    IF call.op = "left_canonise"
    THEN [start |-> call.start, end |-> call.end, written |-> call.written]
    ELSE [start |-> ret.args.start, end |-> RetEnd, written |-> ret.value.written]

\* The indices left_canonise(start, end, ...) may replace or rescale.
MayWrite(start, end) == IF start >= end THEN {} ELSE start..Min(end, N - 1)

\* C14: left_canonise(start, end, ...) with 0 <= start <= end <= N leaves the
\* tensors at every index below start and above end unchanged, and the
\* chain's length, order and left/right/phys labels; it writes only indices
\* of start..min(end, N-1); it writes index end whenever start < end < N; and
\* it changes no tensor when start >= end.
C14_FrameOfLeftCanonise ==
    call.op = "left_canonise" \/ ret.op = "left_canonise" =>
        LET w == Sweep
            may == MayWrite(w.start, w.end)
        IN /\ N = Len(pre.mps.data)
           /\ <<mps.left_label, mps.right_label, mps.phys_label>>
                  = <<pre.mps.left_label, pre.mps.right_label, pre.mps.phys_label>>
           /\ \A j \in (0..(N - 1)) \ may : heap[site(mps, j)] = pre.mps.data[j + 1]
           /\ w.written \subseteq may
           /\ (Returned("left_canonise") /\ w.start < w.end /\ w.end < N =>
                  w.end \in w.written)

\* C14 witness: left_canonise(start=1, end=2) on three sites has returned;
\* site 0 is what it was, sites 1 and 2 have been written and site 2, one
\* past the interval, is not what it was.
C14_Witness ==
    /\ Returned("left_canonise")
    /\ N = 3 /\ ret.args.start = 1 /\ ret.args.end = 2
    /\ heap[site(mps, 0)] = pre.mps.data[1]
    /\ ret.value.written = {1, 2}
    /\ heap[site(mps, 2)] # pre.mps.data[3]

====
